---- MODULE Spec2Model ----
(***************************************************************************)
(* Model of the internship digest pipeline of src/agent.py:                *)
(*   fetch -> dedupe_filter -> rank -> pick -> report_send -> END          *)
(*                                                                         *)
(* Text is a sequence of symbols.  A symbol stands for a run of characters *)
(* ("intern", "ship", " "); str.lower, str.strip, str.join and the `in`     *)
(* substring test are computed on these sequences the way Python computes  *)
(* them on characters.  Listings are objects on a heap and the pipeline    *)
(* fields hold references to them, as Python lists hold references to      *)
(* dicts.                                                                  *)
(***************************************************************************)
EXTENDS Integers, Sequences, FiniteSets, TLC

VARIABLES
    pc,           \* node of the graph about to run, or "done" / "aborted"
    config_json,  \* config.json: "missing", or the name of a document
    adapters,     \* the tuple of source adapters tool_fetch iterates over
    heap,         \* the listing dicts, by reference
    raw_jobs,     \* state["raw_jobs"]: references into heap
    jobs,         \* state["jobs"]
    ranked,       \* state["ranked"]
    alert,        \* state["alert"]
    report_md,    \* state["report_md"]
    files,        \* the two artifacts on disk
    io,           \* external effects of the run, in the order they happen
    fetched,      \* what each invoked adapter did (returned a feed, or raised)
    oracle,       \* what the scoring oracle did in agent_rank
    notify        \* what the notification sink did in build_report_and_send

vars == <<pc, config_json, adapters, heap, raw_jobs, jobs, ranked, alert,
          report_md, files, io, fetched, oracle, notify>>

\* Most listings the adapters return in one run, all feeds together.
MaxRaw == 3

----------------------------------------------------------------------------
(* Python str / list primitives on symbol sequences *)

Min(a, b) == IF a < b THEN a ELSE b
Max(a, b) == IF a > b THEN a ELSE b

\* str.lower(), one symbol
LowerSym(c) ==
    CASE c = "Data Science"     -> "data science"
      [] c = "Machine Learning" -> "machine learning"
      [] c = "Intern"           -> "intern"
      [] c = "ML"               -> "ml"
      [] c = "Tr"               -> "tr"
      [] c = "Senior"           -> "senior"
      [] c = "Remote"           -> "remote"
      [] c = "India"            -> "india"
      [] c = "Acme"             -> "acme"
      [] c = "Remotive"         -> "remotive"
      [] c = "Arbeitnow"        -> "arbeitnow"
      [] OTHER                  -> c

\* str.lower()
Lower(s) == [i \in 1..Len(s) |-> LowerSym(s[i])]

RECURSIVE LStrip(_)
LStrip(s) == IF s # <<>> /\ Head(s) = " " THEN LStrip(Tail(s)) ELSE s

RECURSIVE RStrip(_)
RStrip(s) ==
    IF s # <<>> /\ s[Len(s)] = " " THEN RStrip(SubSeq(s, 1, Len(s) - 1)) ELSE s

\* str.strip()
Strip(s) == LStrip(RStrip(s))

\* x in text (substring)
Contains(text, x) ==
    \E i \in 0..(Len(text) - Len(x)) : SubSeq(text, i + 1, i + Len(x)) = x

\* sep.join(parts)
RECURSIVE Join(_, _)
Join(sep, parts) ==
    IF parts = <<>> THEN <<>>
    ELSE IF Len(parts) = 1 THEN parts[1]
    ELSE parts[1] \o sep \o Join(sep, Tail(parts))

\* any(x in text for x in terms)
AnyIn(terms, text) == \E k \in 1..Len(terms) : Contains(text, terms[k])

\* seq[:n] for n >= 0
Take(seq, n) == SubSeq(seq, 1, Min(n, Len(seq)))

----------------------------------------------------------------------------
(* Config *)

Defaults ==
    [ keywords_exclude   |-> << <<"senior">>, <<"lead">>, <<"principal">>,
                                <<"manager">>, <<"staff">>, <<"5+ years">>,
                                <<"7+ years">>, <<"10+ years">> >>,
      locations_prefer   |-> << <<"India">>, <<"Remote">> >>,
      min_score_to_alert |-> 6,
      max_alerts         |-> 6,
      max_jobs_to_score  |-> 30 ]

\* config.json documents of the model: each sets some keys only
DocExclude ==
    [ keywords_exclude  |-> << <<"Remote">> >>,
      max_jobs_to_score |-> 1 ]

DocAlerts ==
    [ min_score_to_alert |-> 7,
      max_alerts         |-> 1 ]

ConfigFiles == {"missing", "exclude", "alerts"}

Document(file) == IF file = "exclude" THEN DocExclude ELSE DocAlerts

load_config(file) ==
    IF file = "missing" THEN Defaults
    ELSE LET doc == Document(file)
         IN  [ keywords_exclude   |-> IF "keywords_exclude" \in DOMAIN doc
                                      THEN doc.keywords_exclude
                                      ELSE Defaults.keywords_exclude,
               locations_prefer   |-> IF "locations_prefer" \in DOMAIN doc
                                      THEN doc.locations_prefer
                                      ELSE Defaults.locations_prefer,
               min_score_to_alert |-> IF "min_score_to_alert" \in DOMAIN doc
                                      THEN doc.min_score_to_alert
                                      ELSE Defaults.min_score_to_alert,
               max_alerts         |-> IF "max_alerts" \in DOMAIN doc
                                      THEN doc.max_alerts
                                      ELSE Defaults.max_alerts,
               max_jobs_to_score  |-> IF "max_jobs_to_score" \in DOMAIN doc
                                      THEN doc.max_jobs_to_score
                                      ELSE Defaults.max_jobs_to_score ]

----------------------------------------------------------------------------
(* Listings the source adapters yield *)

\* a listing as an adapter builds it: no id, score or reason key yet
Listing(source, title, company, location, url, tags, date) ==
    [ source |-> source, title |-> title, company |-> company,
      location |-> location, url |-> url, tags |-> tags, date |-> date,
      keys |-> {}, id |-> <<>>, score |-> 0, reason |-> <<>> ]

DsIntern ==
    Listing(<<"Remotive">>, <<"Data Science", " ", "Intern">>, <<"Acme">>,
            <<"India">>, <<"u1">>, << <<"python">> >>, <<"d1">>)

\* the same posting seen again with other tags and another date
DsInternAgain ==
    Listing(<<"Remotive">>, <<"Data Science", " ", "Intern">>, <<"Acme">>,
            <<"India">>, <<"u1">>, << <<"Senior">>, <<"sql">> >>, <<"d2">>)

MlInternship ==
    Listing(<<"Remotive">>, <<"Machine Learning", " ", "Intern", "ship">>,
            <<>>, <<"Remote">>, <<"u2">>, <<>>, <<"d1">>)

MlTrainee ==
    Listing(<<"Arbeitnow">>, <<" ", "ML", " ", "Tr", "ai", "nee", " ">>,
            <<>>, <<>>, <<"u3">>, <<>>, <<>>)

Samples == {DsIntern, DsInternAgain, MlInternship, MlTrainee}

RECURSIVE SeqsUpTo(_, _)
SeqsUpTo(S, n) ==
    IF n = 0 THEN {<<>>}
    ELSE LET shorter == SeqsUpTo(S, n - 1)
         IN  shorter \cup {Append(s, x) : s \in {t \in shorter : Len(t) = n - 1}, x \in S}

\* what one adapter call can do: return a feed of listing-shaped records, or
\* raise
Feeds == SeqsUpTo(Samples, MaxRaw)
Raise == [ok |-> FALSE, feed |-> <<>>]
AdapterOutcomes == {[ok |-> TRUE, feed |-> f] : f \in Feeds} \cup {Raise}

\* the tuple tool_fetch iterates over: the one written in it, and one of two
\* of the adapters the repository defines
AdapterTuples ==
    { <<"indeed_india_jobs">>, <<"remotive_jobs", "arbeitnow_jobs">> }

RECURSIVE TotalLen(_, _)
TotalLen(outs, k) ==
    IF k > Len(outs) THEN 0 ELSE Len(outs[k].feed) + TotalLen(outs, k + 1)

----------------------------------------------------------------------------
(* tool_fetch *)

\* the loop without its try/except: the first adapter that raises ends it
RECURSIVE FetchLoopUnguarded(_, _, _, _)
FetchLoopUnguarded(k, outs, acc, invoked) ==
    IF k > Len(outs) THEN [jobs |-> acc, invoked |-> invoked, raised |-> FALSE]
    ELSE IF outs[k] = Raise
         THEN [jobs |-> acc, invoked |-> Append(invoked, outs[k]), raised |-> TRUE]
         ELSE FetchLoopUnguarded(k + 1, outs, acc \o outs[k].feed,
                                 Append(invoked, outs[k]))

\* the for loop of tool_fetch over the adapters not yet invoked:
\* outs[k] is what adapter k does when called
RECURSIVE FetchLoop(_, _, _, _)
FetchLoop(k, outs, acc, invoked) ==
    IF k > Len(outs) THEN [jobs |-> acc, invoked |-> invoked, raised |-> FALSE]
    ELSE IF outs[k] = Raise
         THEN FetchLoop(k + 1, outs, acc, Append(invoked, outs[k]))
         ELSE FetchLoop(k + 1, outs, acc \o outs[k].feed,
                        Append(invoked, outs[k]))

tool_fetch(outs) == FetchLoop(1, outs, <<>>, <<>>)

Fetch ==
    /\ pc = "fetch"
    /\ \E outs \in [1..Len(adapters) -> AdapterOutcomes] :
          LET r == tool_fetch(outs)
          IN  /\ TotalLen(outs, 1) <= MaxRaw
              /\ fetched' = r.invoked
              /\ IF r.raised
                 THEN /\ pc' = "aborted"
                      /\ UNCHANGED <<heap, raw_jobs>>
                 ELSE /\ pc' = "dedupe_filter"
                      /\ heap' = r.jobs
                      /\ raw_jobs' = [i \in 1..Len(r.jobs) |-> i]
    /\ UNCHANGED <<config_json, adapters, jobs, ranked, alert, report_md,
                   files, io, oracle, notify>>

----------------------------------------------------------------------------
(* tool_normalize_dedupe_filter *)

domain_terms ==
    << <<"data science">>, <<"data scientist">>, <<"data analyst">>,
       <<"machine learning">>, <<"ml">>, <<"ai">>,
       <<"artificial intelligence">>, <<"nlp">>, <<"llm">>,
       <<"deep learning">>, <<"python">>, <<"sql">>, <<"analytics">> >>

intern_terms == << <<"intern">>, <<"intern", "ship">>, <<"tr", "ai", "nee">> >>

\* the exclusion keywords as the config spells them, not lowercased
ExcludeTermsAsWritten(cfg) == cfg.keywords_exclude

\* exc = [k.lower() for k in cfg["keywords_exclude"]]
ExcludeTerms(cfg) ==
    [k \in 1..Len(cfg.keywords_exclude) |-> Lower(cfg.keywords_exclude[k])]

\* loc_pref = [x.lower() for x in cfg["locations_prefer"]]
LocPref(cfg) ==
    [k \in 1..Len(cfg.locations_prefer) |-> Lower(cfg.locations_prefer[k])]

\* text = " ".join([title, company, location, tags]).lower()
SearchText(j) ==
    Lower(Join(<<" ">>, << Strip(j.title), j.company, Strip(j.location),
                           Join(<<" ">>, j.tags) >>))

\* the four filters of the loop body, before the dedupe
PassesFilters(j, cfg) ==
    /\ Strip(j.title) # <<>>
    /\ ~AnyIn(ExcludeTerms(cfg), SearchText(j))
    /\ AnyIn(intern_terms, SearchText(j))
    /\ (Strip(j.location) # <<>>
          => \E k \in 1..Len(LocPref(cfg)) :
                Contains(Lower(Strip(j.location)), LocPref(cfg)[k]))
    /\ AnyIn(domain_terms, SearchText(j))

\* md5 of "source|company|title|url"; the digest is taken to be collision
\* free, so the key stands for it
stable_job_id(j) ==
    j.source \o <<"|">> \o j.company \o <<"|">> \o j.title \o <<"|">> \o j.url

\* a dedupe that never finds an id
NeverSeen(jid, seen) == FALSE

\* jid in seen
Seen(jid, seen) == jid \in seen

\* the loop over state["raw_jobs"] from position k on
RECURSIVE FilterLoop(_, _, _, _, _)
FilterLoop(k, raw, h, seen, out) ==
    IF k > Len(raw) THEN [heap |-> h, out |-> out]
    ELSE LET j   == h[raw[k]]
             jid == stable_job_id(j)
         IN  IF ~PassesFilters(j, load_config(config_json)) \/ Seen(jid, seen)
             THEN FilterLoop(k + 1, raw, h, seen, out)
             ELSE FilterLoop(k + 1, raw,
                             [h EXCEPT ![raw[k]].id = jid,
                                       ![raw[k]].keys = @ \cup {"id"}],
                             seen \cup {jid}, Append(out, raw[k]))

tool_normalize_dedupe_filter(raw, h) == FilterLoop(1, raw, h, {}, <<>>)

DedupeFilter ==
    /\ pc = "dedupe_filter"
    /\ LET r == tool_normalize_dedupe_filter(raw_jobs, heap)
       IN  /\ heap' = r.heap
           /\ jobs' = r.out
    /\ pc' = "rank"
    /\ UNCHANGED <<config_json, adapters, raw_jobs, ranked, alert, report_md,
                   files, io, fetched, oracle, notify>>

----------------------------------------------------------------------------
(* The scoring oracle *)

Absent == [t |-> "absent", v |-> <<>>, n |-> 0]
\* a JSON string
StrVal(v) == [t |-> "str", v |-> v, n |-> 0]
\* a JSON integer
IntVal(n) == [t |-> "int", v |-> <<>>, n |-> n]
\* a value int() raises on: null, a non-numeric string, a list, an object
NonNumeric == [t |-> "nonnum", v |-> <<>>, n |-> 0]
\* a falsy value that is no string: null, 0, false, [], {}
Falsy == [t |-> "falsy", v |-> <<>>, n |-> 0]
\* a truthy value that is no string: 7, true, ["x"], {"a": 1}
TruthyNonStr == [t |-> "nonstr", v |-> <<>>, n |-> 0]
\* a value that cannot be a dict key: a list or an object
Unhashable == [t |-> "unhashable", v |-> <<>>, n |-> 0]

\* an element of the returned array: an object with some of the keys
\* id, score and reason, or something that is no object
Obj(id, score, reason) ==
    [dict |-> TRUE, id |-> id, score |-> score, reason |-> reason]
NonDict == [dict |-> FALSE, id |-> Absent, score |-> Absent, reason |-> Absent]

\* what llm.invoke(prompt).content turns out to be, by what json.loads makes
\* of it; "raise" is the call that returns nothing
Response(kind, elems) == [kind |-> kind, elems |-> elems]

UnknownId == <<"no such id">>

ItemIds(items, h) == {h[items[k]].id : k \in 1..Len(items)}

Verdicts ==
    { <<IntVal(7), StrVal(<<" ", "good fit", " ">>)>>,
      <<IntVal(15), Absent>>,
      <<IntVal(0 - 3), Falsy>>,
      <<NonNumeric, StrVal(<<"ok">>)>>,
      <<Absent, TruthyNonStr>>,
      <<IntVal(9), TruthyNonStr>> }

Elements(items, h) ==
    { NonDict,
      Obj(Absent, IntVal(7), StrVal(<<"ok">>)),
      Obj(Unhashable, IntVal(7), StrVal(<<"ok">>)) }
    \cup { Obj(StrVal(i), v[1], v[2]) :
             i \in ItemIds(items, h) \cup {UnknownId}, v \in Verdicts }

\* a well-formed object for one candidate
Scored(items, h, n) ==
    { Obj(StrVal(i), IntVal(n), StrVal(<<"ok">>)) : i \in ItemIds(items, h) }

Responses(items, h) ==
    { Response(k, <<>>) :
        k \in {"raise", "nonjson", "scalar", "object", "array"} }
    \cup { Response("array", <<e>>) : e \in Elements(items, h) }
    \cup { Response("array", <<e1, e2>>) :
             e1 \in Scored(items, h, 7), e2 \in Scored(items, h, 9) }

----------------------------------------------------------------------------
(* agent_rank *)

FallbackReason == <<"Fallback ranking (LLM JSON parse failed).">>

\* json.loads(resp) raises
NotJson(resp) == resp.kind = "nonjson"

\* the dict comprehension building score_map raises: parsed is not
\* iterable, or an object's id cannot be hashed
ScoreMapRaises(resp) ==
    \/ resp.kind = "scalar"
    \/ /\ resp.kind = "array"
       /\ \E k \in 1..Len(resp.elems) :
             resp.elems[k].dict /\ resp.elems[k].id.t = "unhashable"

\* score_map.get(jid, {}): the last object carrying that id; iterating a
\* JSON object or string yields no dict, so its map is empty
ScoreMapGet(resp, jid) ==
    LET hits == { k \in 1..Len(resp.elems) :
                    /\ resp.kind = "array"
                    /\ resp.elems[k].dict
                    /\ resp.elems[k].id = StrVal(jid) }
    IN  IF hits = {} THEN Obj(Absent, Absent, Absent)
        ELSE resp.elems[CHOOSE k \in hits : \A m \in hits : m <= k]

\* sc = s.get("score", 0); sc_int = int(sc), or 0 if int() raises
ScoreInt(s) == IF s.score.t = "int" THEN s.score.n ELSE 0

\* max(0, min(10, sc_int))
Clamp(n) == Max(0, Min(10, n))

\* (s.get("reason", "") or "").strip() raises AttributeError
ReasonRaises(s) == s.reason.t = "nonstr"

ReasonText(s) == IF s.reason.t = "str" THEN Strip(s.reason.v) ELSE <<>>

SetScore(h, ref, n) ==
    [h EXCEPT ![ref].score = n, ![ref].keys = @ \cup {"score"}]

SetReason(h, ref, r) ==
    [h EXCEPT ![ref].reason = r, ![ref].keys = @ \cup {"reason"}]

\* the loop of the try block from item k on; an exception leaves the loop
\* with what was done so far
RECURSIVE ParsedLoop(_, _, _, _, _)
ParsedLoop(k, items, h, out, resp) ==
    IF k > Len(items) THEN [raised |-> FALSE, heap |-> h, ranked |-> out]
    ELSE LET ref == items[k]
             s   == ScoreMapGet(resp, h[ref].id)
             h1  == SetScore(h, ref, Clamp(ScoreInt(s)))
         IN  IF ReasonRaises(s)
             THEN [raised |-> TRUE, heap |-> h1, ranked |-> out]
             ELSE ParsedLoop(k + 1, items, SetReason(h1, ref, ReasonText(s)),
                             Append(out, ref), resp)

\* the try block as a whole
TryParsed(items, h, resp) ==
    IF NotJson(resp) \/ ScoreMapRaises(resp)
    THEN [raised |-> TRUE, heap |-> h, ranked |-> <<>>]
    ELSE ParsedLoop(1, items, h, <<>>, resp)

\* the heuristic of the except block on one title
FallbackScore(title) ==
    LET t == Lower(title)
    IN  Min(10, 6
                + (IF Contains(t, <<"intern">>) \/ Contains(t, <<"intern", "ship">>)
                   THEN 1 ELSE 0)
                + (IF Contains(t, <<"machine learning">>)
                      \/ Contains(t, <<"data science">>)
                   THEN 1 ELSE 0))

\* the loop of the except block from item k on; it appends to the ranked
\* list the try block left behind
RECURSIVE FallbackLoop(_, _, _, _)
FallbackLoop(k, items, h, out) ==
    IF k > Len(items) THEN [heap |-> h, ranked |-> out]
    ELSE LET ref == items[k]
         IN  FallbackLoop(k + 1, items,
                          SetReason(SetScore(h, ref, FallbackScore(h[ref].title)),
                                    ref, FallbackReason),
                          Append(out, ref))

\* position of x in a list sorted by descending score: behind every entry
\* whose score is at least the score of x
RECURSIVE InsertDesc(_, _, _)
InsertDesc(sorted, x, h) ==
    IF sorted = <<>> THEN <<x>>
    ELSE IF h[Head(sorted)].score >= h[x].score
         THEN <<Head(sorted)>> \o InsertDesc(Tail(sorted), x, h)
         ELSE <<x>> \o sorted

\* ranked.sort(key=score, reverse=True): stable
RECURSIVE SortDesc(_, _)
SortDesc(seq, h) ==
    IF seq = <<>> THEN <<>>
    ELSE InsertDesc(SortDesc(SubSeq(seq, 1, Len(seq) - 1), h), seq[Len(seq)], h)

\* items = state["jobs"][: max_jobs_to_score]
Candidates(js, cfg) == Take(js, cfg.max_jobs_to_score)

\* llm.invoke raises on a timeout or a transport error; the call is not
\* inside a try.  (The LLM_* variables get_llm reads are taken to be set.)
OracleRaises(items, resp) == items # <<>> /\ resp.kind = "raise"

agent_rank(js, h, resp) ==
    LET items == Candidates(js, load_config(config_json))
    IN  IF OracleRaises(items, resp)
        THEN [raised |-> TRUE, path |-> resp.kind, heap |-> h, ranked |-> <<>>]
        ELSE IF items = <<>>
        THEN [raised |-> FALSE, path |-> "not called", heap |-> h, ranked |-> <<>>]
        ELSE LET try == TryParsed(items, h, resp)
                 res == IF try.raised
                        THEN FallbackLoop(1, items, try.heap, try.ranked)
                        ELSE [heap |-> try.heap, ranked |-> try.ranked]
             IN  [raised |-> FALSE,
                  path   |-> IF try.raised THEN "fallback" ELSE "parsed",
                  heap   |-> res.heap,
                  ranked |-> SortDesc(res.ranked, res.heap)]

Rank ==
    /\ pc = "rank"
    /\ \E resp \in Responses(Candidates(jobs, load_config(config_json)), heap) :
          LET r == agent_rank(jobs, heap, resp)
          IN  /\ oracle' = r.path
              /\ IF r.raised
                 THEN /\ pc' = "aborted"
                      /\ UNCHANGED <<heap, ranked>>
                 ELSE /\ pc' = "pick"
                      /\ heap' = r.heap
                      /\ ranked' = r.ranked
    /\ UNCHANGED <<config_json, adapters, raw_jobs, jobs, alert, report_md,
                   files, io, fetched, notify>>

----------------------------------------------------------------------------
(* pick_alert *)

\* the threshold taken as exclusive
RECURSIVE AtLeastStrict(_, _, _)
AtLeastStrict(seq, h, min_score) ==
    IF seq = <<>> THEN <<>>
    ELSE (IF h[Head(seq)].score > min_score THEN <<Head(seq)>> ELSE <<>>)
         \o AtLeastStrict(Tail(seq), h, min_score)

\* [j for j in ranked if int(j.get("score", 0)) >= min_score]
RECURSIVE AtLeast(_, _, _)
AtLeast(seq, h, min_score) ==
    IF seq = <<>> THEN <<>>
    ELSE (IF h[Head(seq)].score >= min_score THEN <<Head(seq)>> ELSE <<>>)
         \o AtLeast(Tail(seq), h, min_score)

pick_alert(rk, h, cfg) == Take(AtLeast(rk, h, cfg.min_score_to_alert), cfg.max_alerts)

PickAlert ==
    /\ pc = "pick"
    /\ alert' = pick_alert(ranked, heap, load_config(config_json))
    /\ pc' = "report_send"
    /\ UNCHANGED <<config_json, adapters, heap, raw_jobs, jobs, ranked,
                   report_md, files, io, fetched, oracle, notify>>

----------------------------------------------------------------------------
(* send_email_via_webhook *)

\* len(body) > 15000
MAIL_BODY_LIMIT == 15000

\* len(s), in characters
RECURSIVE CharLen(_)
CharLen(s) == IF s = <<>> THEN 0 ELSE Len(Head(s)) + CharLen(Tail(s))

\* s[:n], in characters (a symbol the cut falls into is dropped)
RECURSIVE TakeChars(_, _)
TakeChars(s, n) ==
    IF s = <<>> \/ Len(Head(s)) > n THEN <<>>
    ELSE <<Head(s)>> \o TakeChars(Tail(s), n - Len(Head(s)))

\* MAIL_WEBHOOK_URL and MAIL_TO of the environment; <<>> when unset
MailEnvs ==
    { [url |-> <<"https://hook">>, to |-> <<"me@example.org">>],
      [url |-> <<>>, to |-> <<"me@example.org">>],
      [url |-> <<"https://hook">>, to |-> <<>>] }

\* what requests.post(...).raise_for_status() does
PostOutcomes == {"2xx", "non-2xx", "transport error"}

Event(op, target, data) == [op |-> op, target |-> target, data |-> data]

\* an except clause that catches connection errors only
SwallowedConnectionOnly(post) == post = "transport error"

\* the except clause around the post: every exception of the post is
\* swallowed
Swallowed(post) == post \in {"non-2xx", "transport error"}

send_email_via_webhook(env, subject, body, post) ==
    IF env.url = <<>> \/ env.to = <<>>
    THEN [raised |-> FALSE, io |-> <<>>, notify |-> "skipped"]
    ELSE LET sent == IF CharLen(body) > MAIL_BODY_LIMIT
                     THEN TakeChars(body, MAIL_BODY_LIMIT) \o <<"\n\n[Truncated]\n">>
                     ELSE body
         IN  [ raised |-> post # "2xx" /\ ~Swallowed(post),
               io     |-> <<Event("post", env.url, subject \o <<"|">> \o sent)>>,
               notify |-> post ]

----------------------------------------------------------------------------
(* build_report_and_send *)

\* datetime.utcnow().strftime("%Y-%m-%d")
Today == "2026-11-03"

Title == <<"# Internship Intelligence Digest -- ", Today, "\n">>

Section(j) ==
    <<"## ">> \o j.title \o <<"\n- Source: ">> \o j.source
    \o <<"\n- Company: ">> \o j.company \o <<"\n- Location: ">> \o j.location
    \o <<"\n- Score: ", ToString(j.score), "/10\n- Why: ">> \o j.reason
    \o <<"\n- Link: ">> \o j.url \o <<"\n">>

\* report = "\n".join(lines)
Render(al, h) ==
    Join(<<"\n">>,
         <<Title>> \o
         (IF al = <<>>
          THEN << <<"No strong matches today based on your keywords/threshold.\n">> >>
          ELSE [k \in 1..Len(al) |-> Section(h[al[k]])]))

DatedPath == <<"out/digest_", Today, ".md">>
LatestPath == <<"latest_report.md">>

\* what the file system does to the two open(..., "w") calls
DiskOutcomes == {"ok", "dated fails", "latest fails"}

\* the runs of the stage that differ: the mail is not reached when a write
\* fails, and nothing is posted when the mail is not configured
Reached(disk, env, post) ==
    /\ disk # "ok" => env.url # <<>> /\ env.to # <<>>
    /\ (disk # "ok" \/ env.url = <<>> \/ env.to = <<>>) => post = "2xx"

\* the effects of the body in program order: write the dated artifact,
\* write the latest artifact, send the mail, return
build_report_and_send(al, h, fs, disk, env, post) ==
    LET report == Render(al, h)
        fs1    == [fs EXCEPT !.dated = report]
        fs2    == [fs1 EXCEPT !.latest = report]
        mail   == send_email_via_webhook(
                      env, <<"Internship Intelligence Digest -- ", Today>>,
                      report, post)
    IN  IF disk = "dated fails"
        THEN [raised |-> TRUE, files |-> fs, io |-> <<>>,
              notify |-> "not called", report |-> report]
        ELSE IF disk = "latest fails"
        THEN [raised |-> TRUE, files |-> fs1,
              io |-> <<Event("write", DatedPath, report)>>,
              notify |-> "not called", report |-> report]
        ELSE [raised |-> mail.raised, files |-> fs2,
              io |-> <<Event("write", DatedPath, report),
                       Event("write", LatestPath, report)>> \o mail.io,
              notify |-> mail.notify, report |-> report]

ReportSend ==
    /\ pc = "report_send"
    /\ \E disk \in DiskOutcomes, env \in MailEnvs, post \in PostOutcomes :
          LET r == build_report_and_send(alert, heap, files, disk, env, post)
          IN  /\ Reached(disk, env, post)
              /\ files' = r.files
              /\ io' = io \o r.io
              /\ notify' = r.notify
              /\ IF r.raised
                 THEN pc' = "aborted" /\ UNCHANGED report_md
                 ELSE pc' = "done" /\ report_md' = r.report
    /\ UNCHANGED <<config_json, adapters, heap, raw_jobs, jobs, ranked, alert,
                   fetched, oracle>>

----------------------------------------------------------------------------

Init ==
    /\ pc = "fetch"
    /\ config_json \in ConfigFiles
    /\ adapters \in AdapterTuples
    /\ heap = <<>>
    /\ raw_jobs = <<>>
    /\ jobs = <<>>
    /\ ranked = <<>>
    /\ alert = <<>>
    /\ report_md = <<>>
    /\ files = [dated |-> <<"no file">>, latest |-> <<"no file">>]
    /\ io = <<>>
    /\ fetched = <<>>
    /\ oracle = "not called"
    /\ notify = "not called"

Next ==
    \/ Fetch
    \/ DedupeFilter
    \/ Rank
    \/ PickAlert
    \/ ReportSend

Spec == Init /\ [][Next]_vars

----------------------------------------------------------------------------
(* Properties *)

Config == load_config(config_json)

Range(seq) == {seq[k] : k \in 1..Len(seq)}

\* the listings a pipeline field refers to, as values
Content(seq, h) == [k \in 1..Len(seq) |-> h[seq[k]]]

\* the fields an adapter sets
AsFetched(j) ==
    [source |-> j.source, title |-> j.title, company |-> j.company,
     location |-> j.location, url |-> j.url, tags |-> j.tags, date |-> j.date]

\* the feeds of the adapters that returned, one after the other
RECURSIVE SuccessfulFeeds(_)
SuccessfulFeeds(outs) ==
    IF outs = <<>> THEN <<>>
    ELSE (IF Head(outs).ok THEN Head(outs).feed ELSE <<>>)
         \o SuccessfulFeeds(Tail(outs))

\* C3: tool_fetch returns normally whatever the adapters do: every adapter of
\* the tuple is invoked, and raw_jobs is the concatenation, in invocation
\* order, of the feeds of the adapters that did not raise.
FetchToleratesAdapterFailure ==
    [][pc = "fetch" =>
         /\ pc' = "dedupe_filter"
         /\ Len(fetched') = Len(adapters)
         /\ [k \in 1..Len(raw_jobs') |-> AsFetched(heap'[raw_jobs'[k]])]
              = [k \in 1..Len(SuccessfulFeeds(fetched')) |->
                    AsFetched(SuccessfulFeeds(fetched')[k])]]_vars

\* the first adapter raised, the second was still invoked and its feed is
\* what was fetched
FetchAfterFailureReached ==
    /\ pc = "dedupe_filter"
    /\ Len(fetched) = 2
    /\ ~fetched[1].ok
    /\ fetched[2].ok
    /\ Len(raw_jobs) = 2

Report == Render(alert, heap)

\* C4: whatever the notification sink does, build_report_and_send returns
\* normally, both artifacts hold the rendered report, report_md is set to it,
\* and both writes happened before the post.
NotificationNeverBlocksPersistence ==
    notify # "not called" =>
      /\ pc = "done"
      /\ files.dated = Report
      /\ files.latest = Report
      /\ report_md = Report
      /\ \A k \in 1..Len(io) :
            io[k].op = "post" =>
               /\ \E a \in 1..(k - 1) : io[a] = Event("write", DatedPath, Report)
               /\ \E b \in 1..(k - 1) : io[b] = Event("write", LatestPath, Report)

\* the webhook answered with an error status for a digest that has alerts
NotificationFailedReached ==
    /\ notify = "non-2xx"
    /\ alert # <<>>
    /\ \E k \in 1..Len(io) : io[k].op = "post"

\* the search text contains an exclusion keyword, case-insensitively
HasExcludedKeyword(j, cfg) ==
    \E k \in 1..Len(cfg.keywords_exclude) :
       Contains(SearchText(j), Lower(cfg.keywords_exclude[k]))

\* C5: a raw listing whose search text contains an exclusion keyword as a
\* case-insensitive substring is not in the output of the filter.
ExcludedNeverKept ==
    pc = "rank" =>
       \A k \in 1..Len(raw_jobs) :
          HasExcludedKeyword(heap[raw_jobs[k]], Config) => raw_jobs[k] \notin Range(jobs)

\* the keyword "Remote" of the config matched the location of a listing that
\* passes every other filter, and another listing was kept
ExcludedDroppedReached ==
    /\ pc = "rank"
    /\ config_json = "exclude"
    /\ jobs # <<>>
    /\ \E k \in 1..Len(raw_jobs) :
          /\ heap[raw_jobs[k]].location = <<"Remote">>
          /\ PassesFilters(heap[raw_jobs[k]], Defaults)
          /\ raw_jobs[k] \notin Range(jobs)

\* where a reference first stands in a list
PositionIn(seq, x) == CHOOSE k \in 1..Len(seq) : seq[k] = x /\ \A m \in 1..(k - 1) : seq[m] # x

\* what the id is a fingerprint of
Fingerprint(j) == <<j.source, j.company, j.title, j.url>>

\* C6: the output of the filter holds no two listings with the same id; among
\* the raw listings that pass the filters and share an id only the first is
\* kept; every kept listing carries its id; the kept listings are in the
\* order of raw_jobs.
DedupeKeepsFirst ==
    pc = "rank" =>
      /\ \A p, q \in 1..Len(jobs) :
            p < q => /\ heap[jobs[p]].id # heap[jobs[q]].id
                     /\ Fingerprint(heap[jobs[p]]) # Fingerprint(heap[jobs[q]])
      /\ \A p \in 1..Len(jobs) : "id" \in heap[jobs[p]].keys
      /\ \A p \in 1..Len(jobs) : jobs[p] \in Range(raw_jobs)
      /\ \A p, q \in 1..Len(jobs) :
            p < q => PositionIn(raw_jobs, jobs[p]) < PositionIn(raw_jobs, jobs[q])
      /\ \A k \in 1..Len(raw_jobs) :
            PassesFilters(heap[raw_jobs[k]], Config) =>
               (raw_jobs[k] \in Range(jobs)
                  <=> ~\E e \in 1..(k - 1) :
                         /\ PassesFilters(heap[raw_jobs[e]], Config)
                         /\ Fingerprint(heap[raw_jobs[e]])
                              = Fingerprint(heap[raw_jobs[k]]))

\* two raw listings with one id and different tags both pass the filters; the
\* earlier one is kept and the later one dropped
DuplicateDroppedReached ==
    /\ pc = "rank"
    /\ \E a, b \in 1..Len(raw_jobs) :
          /\ a < b
          /\ Fingerprint(heap[raw_jobs[a]]) = Fingerprint(heap[raw_jobs[b]])
          /\ heap[raw_jobs[a]].tags # heap[raw_jobs[b]].tags
          /\ PassesFilters(heap[raw_jobs[a]], Config)
          /\ PassesFilters(heap[raw_jobs[b]], Config)
          /\ raw_jobs[a] \in Range(jobs)
          /\ raw_jobs[b] \notin Range(jobs)

\* positions of ranked whose listing meets the threshold
Eligible(rk, h, cfg) ==
    {k \in 1..Len(rk) : h[rk[k]].score >= cfg.min_score_to_alert}

\* the i-th eligible position
NthEligible(rk, h, cfg, i) ==
    CHOOSE k \in Eligible(rk, h, cfg) :
       Cardinality({m \in Eligible(rk, h, cfg) : m <= k}) = i

Items == Candidates(jobs, Config)

\* the oracle returned a string and agent_rank returned
OracleAnswered == oracle \in {"parsed", "fallback"}

\* C1: for any string the oracle returns, agent_rank returns and ranked holds
\* every candidate exactly once, each with a score and a reason, and nothing
\* beyond the cap.
RankedHoldsEachCandidateOnce ==
    OracleAnswered =>
      /\ pc # "rank"
      /\ Len(ranked) = Len(Items)
      /\ \A k \in 1..Len(Items) :
            /\ Cardinality({p \in 1..Len(ranked) : ranked[p] = Items[k]}) = 1
            /\ {"score", "reason"} \subseteq heap[Items[k]].keys
      /\ Range(ranked) \subseteq Range(Items)

\* the oracle call itself failed: invoke raised
OracleFailed == oracle = "raise"

\* C2: a failure of the oracle call is not fatal: the run goes on and every
\* candidate gets the fallback score and reason.
OracleFailureIsNotFatal ==
    OracleFailed =>
      /\ pc # "aborted"
      /\ \A k \in 1..Len(Items) :
            /\ heap[Items[k]].score = FallbackScore(heap[Items[k]].title)
            /\ heap[Items[k]].reason = FallbackReason

\* the heuristic as the claim states it: the internship-indicator terms are
\* intern, internship and trainee
HeuristicAsClaimed(title) ==
    Min(10, 6
            + (IF AnyIn(intern_terms, Lower(title)) THEN 1 ELSE 0)
            + (IF AnyIn(<< <<"machine learning">>, <<"data science">> >>, Lower(title))
               THEN 1 ELSE 0))

\* C7: on the fallback path every candidate has score 6, +1 for an
\* internship-indicator term in the title, +1 for a domain term in the title,
\* capped at 10, and the fixed fallback reason.
FallbackScoreIsAsClaimed ==
    oracle = "fallback" =>
       \A k \in 1..Len(Items) :
          /\ heap[Items[k]].score = HeuristicAsClaimed(heap[Items[k]].title)
          /\ heap[Items[k]].reason = FallbackReason

\* C8: ranked is sorted by score, highest first, and listings of equal score
\* stand in the order they have in jobs.
RankedIsSortedStable ==
    OracleAnswered =>
       \A p, q \in 1..Len(ranked) :
          p < q =>
            /\ heap[ranked[p]].score >= heap[ranked[q]].score
            /\ heap[ranked[p]].score = heap[ranked[q]].score
                 => PositionIn(jobs, ranked[p]) <= PositionIn(jobs, ranked[q])

\* C10: a stage leaves the content of the fields of the other stages as it
\* found it: the filter adds no id to the listings of raw_jobs, and the
\* scorer adds no score or reason to the listings of jobs and raw_jobs.
StagesLeaveOtherFieldsAlone ==
    [][/\ pc = "dedupe_filter" =>
            Content(raw_jobs', heap') = Content(raw_jobs, heap)
       /\ pc = "rank" =>
            /\ Content(raw_jobs', heap') = Content(raw_jobs, heap)
            /\ Content(jobs', heap') = Content(jobs, heap)
       /\ pc = "pick" =>
            /\ Content(raw_jobs', heap') = Content(raw_jobs, heap)
            /\ Content(jobs', heap') = Content(jobs, heap)
            /\ Content(ranked', heap') = Content(ranked, heap)
       /\ pc = "report_send" =>
            /\ Content(raw_jobs', heap') = Content(raw_jobs, heap)
            /\ Content(jobs', heap') = Content(jobs, heap)
            /\ Content(ranked', heap') = Content(ranked, heap)
            /\ Content(alert', heap') = Content(alert, heap)]_vars

====
